---- MODULE Spec2Model ----
(***************************************************************************)
(* Model of the liquidity_pool program: the instruction handlers            *)
(* add_liquidity, remove_liquidity (instructions/liquidity.rs) and swap     *)
(* (instructions/swap.rs) over the PoolState account (state.rs), the two    *)
(* vault token accounts, the pool-share mint and the users' token accounts. *)
(*                                                                          *)
(* Integers are scaled: a machine word (u64 in the source) holds            *)
(* 0..U64_MAX and the double-width word (u128) holds 0..U128_MAX, where     *)
(* U128_MAX + 1 = (U64_MAX + 1)^2, so that every overflow, wrap and         *)
(* narrowing of the source has its scaled counterpart.                      *)
(***************************************************************************)
EXTENDS Integers, FiniteSets, Sequences, TLC

\* ------------------------------------------------------------------ bounds

\* largest value of the (scaled) u64 word
U64_MAX == 7

U64_MOD == U64_MAX + 1

\* largest value of the (scaled) u128 word
U128_MAX == (U64_MOD * U64_MOD) - 1

U64 == 0..U64_MAX

\* largest min_amount_out a trader asks for
MAX_MIN_OUT == 2

\* what owner "a" starts with of token X when two owners hold tokens
HolderFunds == 2

\* the owners that sign instructions
Users == {"a", "b"}

\* the fee schedules a pool is initialised with: <<numerator, denominator>>
Fees == {<<0, 1>>, <<1, 4>>}

\* ------------------------------------------------------------------- state

VARIABLES
    pool_state,      \* PoolState: total_amount_minted, fee_numerator, fee_denominator
    vault0,          \* amount of the pool's token account for token X
    vault1,          \* amount of the pool's token account for token Y
    pool_mint,       \* supply of the pool-share mint
    user0,           \* user0[u]: amount of owner u's token account for token X
    user1,           \* user1[u]: amount of owner u's token account for token Y
    user_pool_ata,   \* user_pool_ata[u]: amount of owner u's pool-share account
    last             \* the last instruction processed and its outcome

vars == <<pool_state, vault0, vault1, pool_mint, user0, user1, user_pool_ata, last>>

\* the accounts an instruction is handed, as one value
Accounts ==
    [pool_state |-> pool_state, vault0 |-> vault0, vault1 |-> vault1,
     pool_mint |-> pool_mint, user0 |-> user0, user1 |-> user1,
     user_pool_ata |-> user_pool_ata]

\* ------------------------------------------------------- checked arithmetic

\* Option::None of a checked operation
None == -1

\* how an instruction ends: "none" for Ok(()), an ErrorCode of a failed
\* require!, "UnwrapNone" for the panic of unwrap() on None, "Overflow" for the
\* panic of an overflowing `+` in a build with overflow checks, "TokenError"
\* for an error of the token program.

\* the quotient is rounded up
checked_div64_round_up(a, b) == IF b = 0 THEN None ELSE (a + b - 1) \div b

\* u64::checked_div
checked_div64(a, b) == IF b = 0 THEN None ELSE a \div b

\* u64::checked_mul
checked_mul64(a, b) == IF a * b > U64_MAX THEN None ELSE a * b

\* u128::checked_mul
checked_mul128(a, b) == IF a * b > U128_MAX THEN None ELSE a * b

\* u128::checked_div
checked_div128(a, b) == IF b = 0 THEN None ELSE a \div b

\* u128::checked_sub
checked_sub128(a, b) == IF b > a THEN None ELSE a - b

\* `x as u64` of a u128: keeps the low word
as_u64(x) == x % U64_MOD

\* ---------------------------------------------------- the SPL token program

\* token::transfer between two amounts: <<ok, from', to'>>
token_transfer(from, to, amount) ==
    IF from < amount \/ to + amount > U64_MAX
    THEN [ok |-> FALSE, from |-> from, to |-> to]
    ELSE [ok |-> TRUE, from |-> from - amount, to |-> to + amount]

\* token::mint_to: <<ok, supply', to'>>
token_mint_to(supply, to, amount) ==
    IF supply + amount > U64_MAX \/ to + amount > U64_MAX
    THEN [ok |-> FALSE, supply |-> supply, to |-> to]
    ELSE [ok |-> TRUE, supply |-> supply + amount, to |-> to + amount]

\* token::burn: <<ok, supply', from'>>
token_burn(supply, from, amount) ==
    IF from < amount \/ supply < amount
    THEN [ok |-> FALSE, supply |-> supply, from |-> from]
    ELSE [ok |-> TRUE, supply |-> supply - amount, from |-> from - amount]

\* --------------------------------------------------------- add_liquidity

\* a handler outcome that moved nothing
NoAmounts(err, regime) ==
    [err |-> err, regime |-> regime, deposit0 |-> 0, deposit1 |-> 0, amount_to_mint |-> 0]

\* the initialising branch: amount_to_mint = (amount_liq0 + amount_liq1) >> 1.
\* The sum is a plain u64 `+`: it panics in a build with overflow checks and
\* wraps in a build without them.
add_bootstrap(amount_liq0, amount_liq1, overflow_checks) ==
    LET sum == amount_liq0 + amount_liq1
        amount_to_mint == as_u64(sum) \div 2
    IN  IF sum > U64_MAX /\ overflow_checks
        THEN NoAmounts("Overflow", "bootstrap")
        ELSE [err |-> "none", regime |-> "bootstrap", deposit0 |-> amount_liq0,
              deposit1 |-> amount_liq1, amount_to_mint |-> amount_to_mint]

\* the shares minted are rounded up instead of down
add_steady_round_up(vault_balance0, vault_balance1, total_amount_minted, amount_liq0, amount_liq1) ==
    LET exchange10 == checked_div64(vault_balance1, vault_balance0)
        deposit1 == checked_mul64(amount_liq0, exchange10)
        product == checked_mul128(deposit1, total_amount_minted)
        quotient == checked_div128(product + vault_balance1 - 1, vault_balance1)
    IN  IF exchange10 = None THEN NoAmounts("UnwrapNone", "steady")
        ELSE IF deposit1 = None THEN NoAmounts("UnwrapNone", "steady")
        ELSE IF ~(deposit1 <= amount_liq1) THEN NoAmounts("NotEnoughBalance", "steady")
        ELSE IF product = None THEN NoAmounts("UnwrapNone", "steady")
        ELSE IF quotient = None THEN NoAmounts("UnwrapNone", "steady")
        ELSE [err |-> "none", regime |-> "steady", deposit0 |-> amount_liq0,
              deposit1 |-> deposit1, amount_to_mint |-> as_u64(quotient)]

\* the branch of an initialised pool: deposit at the pool's exchange rate
add_steady(vault_balance0, vault_balance1, total_amount_minted, amount_liq0, amount_liq1) ==
    LET exchange10 == checked_div64(vault_balance1, vault_balance0)
        deposit1 == checked_mul64(amount_liq0, exchange10)
        product == checked_mul128(deposit1, total_amount_minted)
        quotient == checked_div128(product, vault_balance1)
    IN  IF exchange10 = None THEN NoAmounts("UnwrapNone", "steady")
        ELSE IF deposit1 = None THEN NoAmounts("UnwrapNone", "steady")
        ELSE IF ~(deposit1 <= amount_liq1) THEN NoAmounts("NotEnoughBalance", "steady")
        ELSE IF product = None THEN NoAmounts("UnwrapNone", "steady")
        ELSE IF quotient = None THEN NoAmounts("UnwrapNone", "steady")
        ELSE [err |-> "none", regime |-> "steady", deposit0 |-> amount_liq0,
              deposit1 |-> deposit1, amount_to_mint |-> as_u64(quotient)]

\* the amounts add_liquidity computes before it moves anything
add_amounts(acc, u, amount_liq0, amount_liq1, overflow_checks) ==
    LET user_balance0 == acc.user0[u]
        user_balance1 == acc.user1[u]
        vault_balance0 == acc.vault0
        vault_balance1 == acc.vault1
        r == IF vault_balance0 = 0 /\ vault_balance1 = 0
             THEN add_bootstrap(amount_liq0, amount_liq1, overflow_checks)
             ELSE add_steady(vault_balance0, vault_balance1,
                             acc.pool_state.total_amount_minted, amount_liq0, amount_liq1)
    IN  IF ~(amount_liq0 <= user_balance0) THEN NoAmounts("NotEnoughBalance", "none")
        ELSE IF ~(amount_liq1 <= user_balance1) THEN NoAmounts("NotEnoughBalance", "none")
        ELSE IF r.err # "none" THEN r
        ELSE IF ~(r.amount_to_mint > 0) THEN NoAmounts("NoPoolMintOutput", r.regime)
        ELSE r

\* what a failed instruction leaves: the transaction is discarded whole, so
\* the accounts are the ones it was handed
Failed(acc, err, regime) ==
    [err |-> err, acc |-> acc, regime |-> regime, amount0 |-> 0, amount1 |-> 0, shares |-> 0]

\* an instruction that fails after token-program calls have gone through: the
\* transaction is discarded whole, so the accounts are the ones handed in
\* (before), not the ones the calls had reached
Abort_keeps_reached(before, reached, err, regime) == Failed(reached, err, regime)

Abort(before, reached, err, regime) == Failed(before, err, regime)

\* `pool_state.total_amount_minted = amount_to_mint`: the new total forgets the
\* shares already outstanding
total_after_mint_assigned(total_amount_minted, amount_to_mint) == amount_to_mint

\* `pool_state.total_amount_minted += amount_to_mint`, before the word cuts it
total_after_mint(total_amount_minted, amount_to_mint) ==
    total_amount_minted + amount_to_mint

\* the two deposits, the update of total_amount_minted, and the mint, each
\* working on the accounts the step before it left.
\* `total_amount_minted += amount_to_mint` is a plain u64 `+=`: it panics in a
\* build with overflow checks and wraps in a build without them.
add_effects(acc, u, r, overflow_checks) ==
    LET t0 == token_transfer(acc.user0[u], acc.vault0, r.deposit0)
        s0 == [acc EXCEPT !.user0[u] = t0.from, !.vault0 = t0.to]
        t1 == token_transfer(acc.user1[u], acc.vault1, r.deposit1)
        s1 == [s0 EXCEPT !.user1[u] = t1.from, !.vault1 = t1.to]
        total == total_after_mint(acc.pool_state.total_amount_minted, r.amount_to_mint)
        s2 == [s1 EXCEPT !.pool_state.total_amount_minted = as_u64(total)]
        m == token_mint_to(acc.pool_mint, acc.user_pool_ata[u], r.amount_to_mint)
        s3 == [s2 EXCEPT !.pool_mint = m.supply, !.user_pool_ata[u] = m.to]
    IN  IF ~t0.ok THEN Abort(acc, acc, "TokenError", r.regime)
        ELSE IF ~t1.ok THEN Abort(acc, s0, "TokenError", r.regime)
        ELSE IF total > U64_MAX /\ overflow_checks THEN Abort(acc, s1, "Overflow", r.regime)
        ELSE IF ~m.ok THEN Abort(acc, s2, "TokenError", r.regime)
        ELSE [err |-> "none", acc |-> s3, regime |-> r.regime, amount0 |-> r.deposit0,
              amount1 |-> r.deposit1, shares |-> r.amount_to_mint]

add_liquidity(acc, u, amount_liq0, amount_liq1, overflow_checks) ==
    LET r == add_amounts(acc, u, amount_liq0, amount_liq1, overflow_checks)
    IN  IF r.err # "none" THEN Failed(acc, r.err, r.regime)
        ELSE add_effects(acc, u, r, overflow_checks)

\* ------------------------------------------------------ remove_liquidity

\* the ratio is inverted: the reserve is multiplied by the total and divided
\* by the shares burnt
remove_amounts_inverted(vault0_amount, vault1_amount, total_amount_minted, burn_amount) ==
    IF burn_amount = 0
    THEN [ok |-> FALSE, amount0 |-> 0, amount1 |-> 0]
    ELSE [ok |-> TRUE,
          amount0 |-> as_u64((total_amount_minted * vault0_amount) \div burn_amount),
          amount1 |-> as_u64((total_amount_minted * vault1_amount) \div burn_amount)]

\* the product is narrowed to the word before it is divided
remove_amounts_narrow_first(vault0_amount, vault1_amount, total_amount_minted, burn_amount) ==
    IF total_amount_minted = 0
    THEN [ok |-> FALSE, amount0 |-> 0, amount1 |-> 0]
    ELSE [ok |-> TRUE,
          amount0 |-> as_u64(burn_amount * vault0_amount) \div total_amount_minted,
          amount1 |-> as_u64(burn_amount * vault1_amount) \div total_amount_minted]

\* the two amounts paid for burn_amount shares; ok is FALSE when a checked
\* operation yields None and the unwrap panics
remove_amounts(vault0_amount, vault1_amount, total_amount_minted, burn_amount) ==
    LET p0 == checked_mul128(burn_amount, vault0_amount)
        p1 == checked_mul128(burn_amount, vault1_amount)
        q0 == IF p0 = None THEN None ELSE checked_div128(p0, total_amount_minted)
        q1 == IF p1 = None THEN None ELSE checked_div128(p1, total_amount_minted)
    IN  IF q0 = None \/ q1 = None
        THEN [ok |-> FALSE, amount0 |-> 0, amount1 |-> 0]
        ELSE [ok |-> TRUE, amount0 |-> as_u64(q0), amount1 |-> as_u64(q1)]

remove_liquidity(acc, u, burn_amount) ==
    LET user_pool_mint_balance == acc.user_pool_ata[u]
        total_amount_minted == acc.pool_state.total_amount_minted
        amounts == remove_amounts(acc.vault0, acc.vault1, total_amount_minted, burn_amount)
        b == token_burn(acc.pool_mint, acc.user_pool_ata[u], burn_amount)
        t0 == token_transfer(acc.vault0, acc.user0[u], amounts.amount0)
        t1 == token_transfer(acc.vault1, acc.user1[u], amounts.amount1)
    IN  IF ~(burn_amount <= user_pool_mint_balance) THEN Failed(acc, "NotEnoughBalance", "none")
        ELSE IF ~(total_amount_minted >= burn_amount) THEN Failed(acc, "BurnTooMuch", "none")
        ELSE IF ~amounts.ok THEN Failed(acc, "UnwrapNone", "none")
        ELSE IF ~b.ok THEN Failed(acc, "TokenError", "none")
        ELSE IF ~t0.ok THEN Failed(acc, "TokenError", "none")
        ELSE IF ~t1.ok THEN Failed(acc, "TokenError", "none")
        ELSE [err |-> "none",
              acc |-> [acc EXCEPT !.pool_mint = b.supply,
                                  !.user_pool_ata[u] = b.from,
                                  !.pool_state.total_amount_minted = total_amount_minted - burn_amount,
                                  !.vault0 = t0.from, !.user0[u] = t0.to,
                                  !.vault1 = t1.from, !.user1[u] = t1.to],
              regime |-> "none", amount0 |-> amounts.amount0, amount1 |-> amounts.amount1,
              shares |-> burn_amount]

\* ------------------------------------------------------------------ swap

\* a swap outcome that moved nothing; computed says whether output_amount
\* was reached
NoSwap(acc, err, computed, output_amount) ==
    [err |-> err, acc |-> acc, computed |-> computed, output_amount |-> output_amount]

\* the fee is not taken off the input
effective_in_without_fee(amount_in, fee_amount) == amount_in

\* `u128_amount_in - fee_amount`: it cannot underflow while fee_numerator <=
\* fee_denominator, which every schedule in Fees satisfies
effective_in(amount_in, fee_amount) == amount_in - fee_amount

\* the test lets through an output one below min_amount_out
enough_out_off_by_one(output_amount, min_amount_out) == output_amount + 1 >= min_amount_out

\* the test of require!(output_amount >= min_amount_out as u128, ...)
enough_out(output_amount, min_amount_out) == output_amount >= min_amount_out

\* the constant-product output for amount_in: None when a checked operation
\* yields None (the unwrap panics)
swap_output(src_vault_amount, dst_vault_amount, fee_numerator, fee_denominator, amount_in) ==
    LET fee_product == checked_mul128(amount_in, fee_numerator)
        fee_amount == checked_div128(fee_product, fee_denominator)
        effective_amount_in == effective_in(amount_in, fee_amount)
        invariant == checked_mul128(src_vault_amount, dst_vault_amount)
        new_src_vault == src_vault_amount + effective_amount_in
        new_dst_vault == checked_div128(invariant, new_src_vault)
    IN  IF fee_product = None THEN None
        ELSE IF fee_amount = None THEN None
        ELSE IF effective_amount_in < 0 THEN None
        ELSE IF invariant = None THEN None
        ELSE IF new_dst_vault = None THEN None
        ELSE checked_sub128(dst_vault_amount, new_dst_vault)

\* only the input less the fee is moved into the source vault
swap_deposits_net_of_fee(acc, u, dir, amount_in, min_amount_out) ==
    LET user_src_balance == IF dir = 0 THEN acc.user0[u] ELSE acc.user1[u]
        user_dst_balance == IF dir = 0 THEN acc.user1[u] ELSE acc.user0[u]
        src_vault_amount == IF dir = 0 THEN acc.vault0 ELSE acc.vault1
        dst_vault_amount == IF dir = 0 THEN acc.vault1 ELSE acc.vault0
        output_amount == swap_output(src_vault_amount, dst_vault_amount,
                                     acc.pool_state.fee_numerator,
                                     acc.pool_state.fee_denominator, amount_in)
        tin == token_transfer(user_src_balance, src_vault_amount,
                              amount_in - ((amount_in * acc.pool_state.fee_numerator)
                                           \div acc.pool_state.fee_denominator))
        tout == token_transfer(dst_vault_amount, user_dst_balance, as_u64(output_amount))
    IN  IF ~(user_src_balance >= amount_in) THEN NoSwap(acc, "NotEnoughBalance", FALSE, 0)
        ELSE IF output_amount = None THEN NoSwap(acc, "UnwrapNone", FALSE, 0)
        ELSE IF ~enough_out(output_amount, min_amount_out)
             THEN NoSwap(acc, "NotEnoughOut", TRUE, output_amount)
        ELSE IF ~tin.ok THEN NoSwap(acc, "TokenError", TRUE, output_amount)
        ELSE IF ~tout.ok THEN NoSwap(acc, "TokenError", TRUE, output_amount)
        ELSE [err |-> "none",
              acc |-> IF dir = 0
                      THEN [acc EXCEPT !.user0[u] = tin.from, !.vault0 = tin.to,
                                       !.vault1 = tout.from, !.user1[u] = tout.to]
                      ELSE [acc EXCEPT !.user1[u] = tin.from, !.vault1 = tin.to,
                                       !.vault0 = tout.from, !.user0[u] = tout.to],
              computed |-> TRUE, output_amount |-> output_amount]

\* dir = 0 swaps token X for token Y (vault_src is vault0), dir = 1 the reverse
swap(acc, u, dir, amount_in, min_amount_out) ==
    LET user_src_balance == IF dir = 0 THEN acc.user0[u] ELSE acc.user1[u]
        user_dst_balance == IF dir = 0 THEN acc.user1[u] ELSE acc.user0[u]
        src_vault_amount == IF dir = 0 THEN acc.vault0 ELSE acc.vault1
        dst_vault_amount == IF dir = 0 THEN acc.vault1 ELSE acc.vault0
        output_amount == swap_output(src_vault_amount, dst_vault_amount,
                                     acc.pool_state.fee_numerator,
                                     acc.pool_state.fee_denominator, amount_in)
        tin == token_transfer(user_src_balance, src_vault_amount, amount_in)
        tout == token_transfer(dst_vault_amount, user_dst_balance, as_u64(output_amount))
    IN  IF ~(user_src_balance >= amount_in) THEN NoSwap(acc, "NotEnoughBalance", FALSE, 0)
        ELSE IF output_amount = None THEN NoSwap(acc, "UnwrapNone", FALSE, 0)
        ELSE IF ~enough_out(output_amount, min_amount_out)
             THEN NoSwap(acc, "NotEnoughOut", TRUE, output_amount)
        ELSE IF ~tin.ok THEN NoSwap(acc, "TokenError", TRUE, output_amount)
        ELSE IF ~tout.ok THEN NoSwap(acc, "TokenError", TRUE, output_amount)
        ELSE [err |-> "none",
              acc |-> IF dir = 0
                      THEN [acc EXCEPT !.user0[u] = tin.from, !.vault0 = tin.to,
                                       !.vault1 = tout.from, !.user1[u] = tout.to]
                      ELSE [acc EXCEPT !.user1[u] = tin.from, !.vault1 = tin.to,
                                       !.vault0 = tout.from, !.user0[u] = tout.to],
              computed |-> TRUE, output_amount |-> output_amount]

\* ---------------------------------------------------------- state machine

\* the accounts of an outcome become the state
Store(acc) ==
    /\ pool_state' = acc.pool_state
    /\ vault0' = acc.vault0
    /\ vault1' = acc.vault1
    /\ pool_mint' = acc.pool_mint
    /\ user0' = acc.user0
    /\ user1' = acc.user1
    /\ user_pool_ata' = acc.user_pool_ata

\* the record of an instruction: on success the amounts it moved
\* (deposits or payouts, shares minted or burnt, amounts swapped); below_min
\* is the test of swap against min_amount_out; round_trip marks a removal of
\* exactly the shares that the same owner's add_liquidity, the instruction
\* before it, minted into a pool that was not empty
Record(op, u, err, regime, amount0, amount1, shares, dir, min_amount_out, below_min, round_trip) ==
    [op |-> op, user |-> u, err |-> err, regime |-> regime, amount0 |-> amount0,
     amount1 |-> amount1, shares |-> shares, dir |-> dir,
     min_amount_out |-> min_amount_out, below_min |-> below_min,
     round_trip |-> round_trip]

\* an empty, just initialised pool; owner "a" holds a0 of token X and a1 of
\* token Y, owner "b" holds b0 and b1
InitWith(a0, a1, b0, b1) ==
    /\ \E f \in Fees :
         pool_state = [total_amount_minted |-> 0, fee_numerator |-> f[1],
                       fee_denominator |-> f[2]]
    /\ vault0 = 0
    /\ vault1 = 0
    /\ pool_mint = 0
    /\ user0 = [u \in Users |-> IF u = "a" THEN a0 ELSE b0]
    /\ user1 = [u \in Users |-> IF u = "a" THEN a1 ELSE b1]
    /\ user_pool_ata = [u \in Users |-> 0]
    /\ last = Record("init", "a", "none", "none", 0, 0, 0, 0, 0, FALSE, FALSE)

\* one owner holds the whole supply of both tokens
Init == InitWith(U64_MAX, U64_MAX, 0, 0)

\* two owners hold tokens, so that both can become share holders
InitHolders == InitWith(HolderFunds, 1, 1, 1)

\* the amounts an owner asks to move: every amount the owner holds, and one
\* amount more than that (every larger amount is refused the same way)
Upto(balance) == 0..(IF balance < U64_MAX THEN balance + 1 ELSE U64_MAX)

AddLiquidity ==
    \E u \in Users, overflow_checks \in BOOLEAN :
      \E amount_liq0 \in Upto(user0[u]), amount_liq1 \in Upto(user1[u]) :
        \E r \in {add_liquidity(Accounts, u, amount_liq0, amount_liq1, overflow_checks)} :
            /\ Store(r.acc)
            /\ last' = Record("add", u, r.err, r.regime, r.amount0, r.amount1, r.shares,
                              0, 0, FALSE, FALSE)

RemoveLiquidity ==
    \E u \in Users, burn_amount \in U64 :
        \E r \in {remove_liquidity(Accounts, u, burn_amount)} :
            /\ Store(r.acc)
            /\ last' = Record("remove", u, r.err, "none", r.amount0, r.amount1, r.shares,
                              0, 0, FALSE,
                              /\ r.err = "none"
                              /\ last.op = "add" /\ last.err = "none"
                              /\ last.regime = "steady" /\ last.user = u
                              /\ last.shares = burn_amount)

Swap ==
    \E u \in Users, dir \in {0, 1}, min_amount_out \in 0..MAX_MIN_OUT :
      \E amount_in \in Upto(IF dir = 0 THEN user0[u] ELSE user1[u]) :
        \E r \in {swap(Accounts, u, dir, amount_in, min_amount_out)} :
          LET ok == r.err = "none"
          IN
            /\ Store(r.acc)
            /\ last' = Record("swap", u, r.err, "none",
                              IF ok THEN amount_in ELSE 0,
                              IF ok THEN r.output_amount ELSE 0, 0, dir,
                              IF ok THEN min_amount_out ELSE 0,
                              r.computed /\ r.output_amount < min_amount_out, FALSE)

Next == AddLiquidity \/ RemoveLiquidity \/ Swap

Spec == Init /\ [][Next]_vars

SpecHolders == InitHolders /\ [][Next]_vars

\* ------------------------------------------------------------ properties

\* everything an instruction can change
accounts == <<pool_state, vault0, vault1, pool_mint, user0, user1, user_pool_ata>>

total_shares == pool_state.total_amount_minted

\* the step just taken is a successful instruction op
Did(op) == last'.op = op /\ last'.err = "none"

\* C1: every successful swap of a pool with fee_numerator > 0 leaves the
\* product of the reserves at least what it was before the swap.
C1_SwapProductMonotone ==
    [][(Did("swap") /\ pool_state.fee_numerator > 0)
         => vault0' * vault1' >= vault0 * vault1]_vars

\* what a holder of `shares` shares is entitled to of a reserve
Entitlement(shares, reserve) == (shares * reserve) \div total_shares

\* C2: in every reachable state, for each asset the holders' entitlements
\* floor(shares_h * reserve_i / total_shares) sum to at most reserve_i.
C2_Solvency ==
    total_shares > 0 =>
        /\ Entitlement(user_pool_ata["a"], vault0) + Entitlement(user_pool_ata["b"], vault0)
             <= vault0
        /\ Entitlement(user_pool_ata["a"], vault1) + Entitlement(user_pool_ata["b"], vault1)
             <= vault1

\* two owners hold shares of a pool whose reserves a swap has moved apart
C2_Witness ==
    /\ user_pool_ata["a"] > 0
    /\ user_pool_ata["b"] > 0
    /\ last.op = "swap" /\ last.err = "none" /\ last.amount1 > 0
    /\ (user_pool_ata["a"] * vault0) % total_shares # 0

\* C3: add_liquidity to a pool that is not empty, followed at once by
\* remove_liquidity of exactly the shares it minted, pays out at most the two
\* deposits.
C3_RoundTrip ==
    [][last'.round_trip =>
         /\ last'.amount0 <= last.amount0
         /\ last'.amount1 <= last.amount1]_vars

\* such a round trip has happened and has paid out
C3_Witness ==
    /\ last.op = "remove" /\ last.err = "none" /\ last.round_trip
    /\ last.shares > 0
    /\ last.amount0 > 0

\* C4: remove_liquidity of all outstanding shares pays out exactly both
\* reserves and leaves total_shares and both reserves 0.
C4_BurnAll ==
    [][(Did("remove") /\ total_shares > 0 /\ last'.shares = total_shares) =>
         /\ last'.amount0 = vault0
         /\ last'.amount1 = vault1
         /\ total_shares' = 0
         /\ vault0' = 0
         /\ vault1' = 0]_vars

\* all shares were burnt at once, paying out both reserves
C4_Witness ==
    /\ last.op = "remove" /\ last.err = "none"
    /\ last.shares > 0 /\ total_shares = 0
    /\ last.amount0 > 0 /\ last.amount1 > 0
    /\ last.amount0 # last.amount1

C6_RatioUnchanged ==
    [][((Did("add") \/ Did("remove")) /\ total_shares > 0)
         => vault0 * vault1' = vault0' * vault1]_vars

\* C7: no successful add_liquidity mints or stores a value reduced modulo the
\* word: the shares minted are the exact sum halved (empty pool) or the exact
\* quotient deposit1 * total_shares / reserve1, and total_shares grows by
\* exactly that.
C7_NoWrap ==
    [][Did("add") =>
         /\ last'.regime = "bootstrap"
              => last'.shares = (last'.amount0 + last'.amount1) \div 2
         /\ last'.regime = "steady"
              => last'.shares = (last'.amount1 * total_shares) \div vault1
         /\ total_shares' = total_shares + last'.shares]_vars

\* C8: both reserves are 0 exactly when no shares are outstanding.
C8_EmptyIffNoShares ==
    (vault0 = 0 /\ vault1 = 0) <=> (total_shares = 0)

\* of the values x0 for token X and x1 for token Y, the one for the token a
\* swap in direction dir takes in (Src) and the one for the token it pays out (Dst)
Src(dir, x0, x1) == IF dir = 0 THEN x0 ELSE x1

Dst(dir, x0, x1) == IF dir = 0 THEN x1 ELSE x0

\* C9: swap fails with NotEnoughOut, moving nothing, whenever the output it
\* computed is below min_amount_out; a successful swap pays the trader at least
\* min_amount_out.
C9_Slippage ==
    [][last'.op = "swap" =>
         /\ last'.below_min => (last'.err = "NotEnoughOut" /\ UNCHANGED accounts)
         /\ last'.err = "none" =>
              /\ ~last'.below_min
              /\ Dst(last'.dir, user0', user1')[last'.user]
                   - Dst(last'.dir, user0, user1)[last'.user] >= last'.min_amount_out]_vars

\* a swap was refused for its output, which an unrestricted swap would have paid
C9_Witness ==
    /\ last.op = "swap" /\ last.err = "NotEnoughOut" /\ last.below_min
    /\ vault0 > 0 /\ vault1 > 0

\* the output of a swap as the specification states it
ClaimedOutput(reserve_src, reserve_dst, fee_numerator, fee_denominator, amount_in) ==
    reserve_dst - ((reserve_src * reserve_dst)
                   \div (reserve_src + amount_in
                         - ((amount_in * fee_numerator) \div fee_denominator)))

\* C10: a successful swap pays reserve_dst - floor(reserve_src * reserve_dst /
\* (reserve_src + amount_in - floor(amount_in * fee_numerator / fee_denominator)));
\* for reserves 1000 and 2000, fee 3/1000 and amount_in 100 that is 182.
C10_SwapOutput ==
    [][Did("swap") =>
         /\ Src(last'.dir, vault0', vault1') - Src(last'.dir, vault0, vault1)
              = last'.amount0
         /\ Dst(last'.dir, vault0, vault1) - Dst(last'.dir, vault0', vault1')
              = ClaimedOutput(Src(last'.dir, vault0, vault1), Dst(last'.dir, vault0, vault1),
                              pool_state.fee_numerator, pool_state.fee_denominator,
                              last'.amount0)
         /\ ClaimedOutput(1000, 2000, 3, 1000, 100) = 182]_vars

\* a swap on which a fee was charged has paid out
C10_Witness ==
    /\ last.op = "swap" /\ last.err = "none"
    /\ last.amount1 > 0
    /\ vault0 > 0 /\ vault1 > 0
    /\ (last.amount0 * pool_state.fee_numerator) \div pool_state.fee_denominator > 0

\* C11: a successful add_liquidity to a pool that is not empty takes
\* amount0_requested of token X and amount0_requested * floor(reserve1 /
\* reserve0) of token Y, mints floor(deposit1 * total_shares / reserve1) > 0
\* shares and raises total_shares by exactly the shares minted; for reserves
\* 1000 and 2000, 1500 shares and a request of 100 and 1000 that is a deposit
\* of 200 and 150 shares.
C11_SteadyAdd ==
    [][(Did("add") /\ last'.regime = "steady") =>
         /\ vault0' - vault0 = last'.amount0
         /\ vault1' - vault1 = last'.amount1
         /\ last'.amount1 = last'.amount0 * (vault1 \div vault0)
         /\ last'.shares = (last'.amount1 * total_shares) \div vault1
         /\ last'.shares > 0
         /\ total_shares' = total_shares + last'.shares
         /\ 100 * (2000 \div 1000) = 200
         /\ (200 * 1500) \div 2000 = 150]_vars

\* C12: a successful add_liquidity to an empty pool takes both requested
\* amounts in full and mints floor((amount0 + amount1) / 2) shares, 1500 for
\* 1000 and 2000; a request whose amounts halve to 0 shares fails with
\* NoPoolMintOutput and changes nothing.
C12_BootstrapAdd ==
    [][(last'.op = "add" /\ last'.regime = "bootstrap") =>
         /\ last'.err = "none" =>
              /\ vault0' = last'.amount0
              /\ vault1' = last'.amount1
              /\ user0'[last'.user] = user0[last'.user] - last'.amount0
              /\ user1'[last'.user] = user1[last'.user] - last'.amount1
              /\ last'.shares = (last'.amount0 + last'.amount1) \div 2
              /\ last'.shares > 0
              /\ total_shares' = total_shares + last'.shares
         /\ last'.err = "NoPoolMintOutput" => UNCHANGED accounts
         /\ (1000 + 2000) \div 2 = 1500]_vars

\* C13 as stated: in every reachable state every remove_liquidity request
\* fails with BurnTooMuch if burn_amount exceeds total_shares and with
\* NotEnoughBalance if it exceeds the caller's shares, and otherwise succeeds,
\* paying floor(burn_amount * reserve_i / total_shares) of each reserve and
\* lowering total_shares by exactly burn_amount.
C13_Remove ==
    \A u \in Users, burn_amount \in U64 :
        \A r \in {remove_liquidity(Accounts, u, burn_amount)} :
            /\ burn_amount > total_shares => r.err = "BurnTooMuch"
            /\ burn_amount > user_pool_ata[u] => r.err = "NotEnoughBalance"
            /\ (burn_amount <= total_shares /\ burn_amount <= user_pool_ata[u]) =>
                 /\ r.err = "none"
                 /\ r.amount0 = (burn_amount * vault0) \div total_shares
                 /\ r.amount1 = (burn_amount * vault1) \div total_shares
                 /\ r.acc.pool_state.total_amount_minted = total_shares - burn_amount

\* C13, amended: in every reachable state every remove_liquidity request fails
\* with NotEnoughBalance, changing nothing, if burn_amount exceeds the caller's
\* shares, which covers every burn_amount above total_shares, so that no
\* request fails with BurnTooMuch; a request within the caller's shares fails
\* on the division by zero when total_shares is 0, and otherwise succeeds,
\* paying floor(burn_amount * reserve_i / total_shares) of each reserve and
\* lowering total_shares by exactly burn_amount.
C13_RemoveBalanceFirst ==
    \A u \in Users, burn_amount \in U64 :
        \A r \in {remove_liquidity(Accounts, u, burn_amount)} :
            /\ r.err # "BurnTooMuch"
            /\ burn_amount > total_shares => burn_amount > user_pool_ata[u]
            /\ burn_amount > user_pool_ata[u] =>
                 (r.err = "NotEnoughBalance" /\ r.acc = Accounts)
            /\ (burn_amount <= user_pool_ata[u] /\ total_shares = 0) =>
                 (r.err = "UnwrapNone" /\ r.acc = Accounts)
            /\ (burn_amount <= user_pool_ata[u] /\ total_shares > 0) =>
                 /\ r.err = "none"
                 /\ r.amount0 = (burn_amount * vault0) \div total_shares
                 /\ r.amount1 = (burn_amount * vault1) \div total_shares
                 /\ r.acc.vault0 = vault0 - r.amount0
                 /\ r.acc.vault1 = vault1 - r.amount1
                 /\ r.acc.pool_state.total_amount_minted = total_shares - burn_amount

\* a part of the shares was burnt and paid with a rounded-down part of a
\* reserve, in a state where a request above the caller's shares is refused
C13_Witness ==
    /\ last.op = "remove" /\ last.err = "none"
    /\ last.shares > 0 /\ total_shares > 0
    /\ last.amount0 > 0
    /\ (last.shares * (vault0 + last.amount0)) % (total_shares + last.shares) # 0
    /\ user_pool_ata[last.user] < U64_MAX

\* C14: every successful swap of a pool with fee_numerator = 0
\* lowers the product of the reserves by at most 1.
C14_ZeroFeeLossAtMostOne ==
    [][(Did("swap") /\ pool_state.fee_numerator = 0)
         => vault0 * vault1 - vault0' * vault1' <= 1]_vars

\* C15: a successful swap raises the source reserve by exactly amount_in, fee
\* included, lowers the destination reserve by exactly the amount paid out,
\* changes the trader's two balances by the opposite amounts and leaves
\* total_shares, fee_numerator and fee_denominator, the supply and the holdings
\* of shares and every other owner's balances unchanged.
C15_SwapFrame ==
    [][Did("swap") =>
         /\ Src(last'.dir, vault0', vault1')
              = Src(last'.dir, vault0, vault1) + last'.amount0
         /\ Dst(last'.dir, vault0', vault1')
              = Dst(last'.dir, vault0, vault1) - last'.amount1
         /\ Src(last'.dir, user0', user1')[last'.user]
              = Src(last'.dir, user0, user1)[last'.user] - last'.amount0
         /\ Dst(last'.dir, user0', user1')[last'.user]
              = Dst(last'.dir, user0, user1)[last'.user] + last'.amount1
         /\ \A v \in Users \ {last'.user} : user0'[v] = user0[v] /\ user1'[v] = user1[v]
         /\ UNCHANGED <<pool_state, pool_mint, user_pool_ata>>]_vars

\* a swap has taken in an input of which a part is fee and has paid out, in a
\* pool of which shares are outstanding
C15_Witness ==
    /\ last.op = "swap" /\ last.err = "none"
    /\ last.amount0 > 0 /\ last.amount1 > 0
    /\ total_shares > 0
    /\ (last.amount0 * pool_state.fee_numerator) \div pool_state.fee_denominator > 0
    /\ last.dir = 1

\* C16: every successful add_liquidity to a pool that is not empty and every
\* successful remove_liquidity that leaves shares outstanding satisfies, for
\* each reserve, reserve_after * total_shares_before >= reserve_before *
\* total_shares_after.
C16_TruncationFavorsPool ==
    [][(\/ Did("add") /\ last'.regime = "steady"
        \/ Did("remove") /\ total_shares' > 0) =>
         /\ vault0' * total_shares >= vault0 * total_shares'
         /\ vault1' * total_shares >= vault1 * total_shares']_vars

\* shares were minted for a deposit whose quotient was rounded down
C16_Witness ==
    /\ last.op = "add" /\ last.err = "none" /\ last.regime = "steady"
    /\ last.shares > 0
    /\ (last.amount1 * (total_shares - last.shares)) % (vault1 - last.amount1) # 0

\* C17: in every reachable state total_amount_minted is the sum of the owners'
\* balances of shares, and the supply of the share token.
C17_SharesAccounted ==
    /\ total_shares = user_pool_ata["a"] + user_pool_ata["b"]
    /\ total_shares = pool_mint

\* of two owners who held shares one has burnt theirs, the other still holds
C17_Witness ==
    /\ last.op = "remove" /\ last.err = "none" /\ last.shares > 0
    /\ last.user = "a"
    /\ user_pool_ata["b"] > 0
    /\ total_shares > 0

\* C18: a successful remove_liquidity pays out of each reserve at most that
\* reserve and a successful swap pays out at most the destination reserve, so
\* that no reserve falls below zero and the token program never has to refuse
\* a payout of remove_liquidity or swap for lack of funds in a vault.
C18_PayoutsWithinReserves ==
    [][/\ Did("remove") =>
            /\ last'.amount0 <= vault0 /\ vault0' = vault0 - last'.amount0
            /\ last'.amount1 <= vault1 /\ vault1' = vault1 - last'.amount1
       /\ Did("swap") =>
            /\ last'.amount1 <= Dst(last'.dir, vault0, vault1)
            /\ Dst(last'.dir, vault0', vault1')
                 = Dst(last'.dir, vault0, vault1) - last'.amount1
       /\ vault0' >= 0 /\ vault1' >= 0
       /\ last'.op \in {"remove", "swap"} => last'.err # "TokenError"]_vars

\* a swap has paid out the whole destination reserve of a pool with shares
C18_Witness ==
    /\ last.op = "swap" /\ last.err = "none"
    /\ last.amount1 > 0
    /\ Dst(last.dir, vault0, vault1) = 0
    /\ total_shares > 0

\* C19: in a pool that is not empty and has reserve1 < reserve0 or reserve0 = 0,
\* no add_liquidity succeeds, whatever the amounts requested: a request within
\* the caller's balances is rejected because it would mint no shares or
\* because a division fails, and the state is unchanged.
C19_NoAddAtRateZero ==
    [][(/\ last'.op = "add"
        /\ ~(vault0 = 0 /\ vault1 = 0)
        /\ (vault1 < vault0 \/ vault0 = 0)) =>
         /\ last'.err # "none"
         /\ UNCHANGED accounts
         /\ last'.regime = "steady" => last'.err \in {"NoPoolMintOutput", "UnwrapNone"}
         /\ last'.regime # "steady" => last'.err = "NotEnoughBalance"]_vars

\* add_liquidity was refused for minting no shares in a pool with shares
\* outstanding whose reserve of token Y is positive and below that of token X
C19_Witness ==
    /\ last.op = "add" /\ last.err = "NoPoolMintOutput" /\ last.regime = "steady"
    /\ total_shares > 0
    /\ 0 < vault1 /\ vault1 < vault0
    /\ user0["a"] > 0 /\ user1["a"] > 0

====
